---------------------------- MODULE Spec2Model ----------------------------
(***************************************************************************)
(* Section meshing, fiber discretisation and the undo/redo history of the  *)
(* fiber-section editor (fiber_section_gui).                               *)
(*                                                                         *)
(* Lengths are fixed-point integers: one length unit is 60 ticks, so the   *)
(* default mesh size 0.1 is 6 ticks.  Every shape and mesh size used below *)
(* is chosen so that the quotients the code computes in floating point     *)
(* (grid counts, node coordinates, centroids, areas) are exact; areas are  *)
(* in square ticks.                                                        *)
(*                                                                         *)
(* Python lists are modelled by value.  The only list aliases the program  *)
(* creates (section.fibers / old_mesh.fibers / operation.old_fibers after  *)
(* an undo) are broken by a copy before either side is read again.         *)
(***************************************************************************)
EXTENDS Integers, Sequences, FiniteSets, TLC

\* ------------------------------------------------------------------ bounds
MaxMeshShapes == 2      \* longest shape list handed to generate_mesh (SpecMesh)
MaxShapes     == 1      \* shape objects created in a section (Spec)
MaxCommands   == 3      \* commands executed through DataManager (Spec)
MaxManual     == 1      \* manual fiber additions (Spec)
MaxDeletes    == 1      \* fiber deletions (Spec)
MaxFiberCalls == 2      \* calls of generate_fibers on one mesh (SpecMesh)
MaxShapeObjs  == 3      \* shape objects created in a section (SpecShapes)
MaxShapeCmds  == 4      \* add / delete commands executed (SpecShapes)
MaxVertices   == 3      \* longest vertex list handed to PolygonShape (SpecData)

\* --------------------------------------------------------------- optionals
\* Python None / a value: <<>> / <<v>>
None == <<>>

Some(v) == <<v>>

IsNone(o) == o = <<>>

Val(o) == o[1]

\* ------------------------------------------------------------- small helpers
Abs(x) == IF x < 0 THEN -x ELSE x

Max(a, b) == IF a >= b THEN a ELSE b

\* Python int(a / b) for a >= 0, b # 0: truncation toward zero
TruncDiv(a, b) == IF b > 0 THEN a \div b ELSE -(a \div (-b))

RECURSIVE SumSeq(_)
SumSeq(s) == IF s = <<>> THEN 0 ELSE Head(s) + SumSeq(Tail(s))

SeqToSet(s) == {s[i] : i \in 1..Len(s)}

\* --------------------------------------------------------------- constants
DefaultMeshSize == 6    \* 0.1 length units

DefaultMaterial == 1

\* ------------------------------------------------------------------ shapes
\* Rectangle.__init__ (rotation 0) with the attribute defaults of Shape.__init__
Rectangle(shape_id, center_y, center_z, width, height) ==
    [id |-> shape_id, center_y |-> center_y, center_z |-> center_z,
     width |-> width, height |-> height,
     material_id |-> None, active |-> TRUE,
     mesh_size |-> None, mesh_type |-> "triangular"]

\* PolygonShape.__init__: a shape given by its vertex list
PolygonShape(shape_id, vertices) ==
    [id |-> shape_id, vertices |-> vertices,
     material_id |-> None, active |-> TRUE,
     mesh_size |-> None, mesh_type |-> "triangular"]

\* PolygonShape._create_geometry: the ring handed to Polygon(); the list is
\* closed when it is not, then the closing point is dropped; no vertices
\* give the unit square
PolygonRing(vertices) ==
    IF vertices = <<>>
    THEN << <<0, 0>>, <<60, 0>>, <<60, 60>>, <<0, 60>> >>
    ELSE IF vertices[1] # vertices[Len(vertices)]
    THEN vertices
    ELSE SubSeq(vertices, 1, Len(vertices) - 1)

\* PolygonShape._create_geometry with shapely's Polygon(): no vertices give
\* the unit square; an empty ring gives an empty geometry; a ring of one or
\* two points makes Polygon() raise ValueError
PolygonGeometry(vertices) ==
    IF Len(PolygonRing(vertices)) \in {1, 2}
    THEN [status |-> "raise", ring |-> <<>>]
    ELSE [status |-> "ok", ring |-> PolygonRing(vertices)]

\* Shape.to_dict with the subclass update: the variant tag and the attributes
ToDict(shape) ==
    IF "vertices" \in DOMAIN shape
    THEN [type |-> "PolygonShape", id |-> shape.id, vertices |-> shape.vertices,
          material_id |-> shape.material_id, active |-> shape.active,
          mesh_size |-> shape.mesh_size, mesh_type |-> shape.mesh_type]
    ELSE [type |-> "Rectangle", id |-> shape.id,
          center_y |-> shape.center_y, center_z |-> shape.center_z,
          width |-> shape.width, height |-> shape.height,
          material_id |-> shape.material_id, active |-> shape.active,
          mesh_size |-> shape.mesh_size, mesh_type |-> shape.mesh_type]

\* create_shape_from_dict: the variant's from_dict calls the constructor and
\* then sets material_id and mesh_size from the dictionary
CreateShapeFromDict(data) ==
    IF data.type = "PolygonShape"
    THEN [PolygonShape(data.id, data.vertices) EXCEPT
            !.material_id = data.material_id, !.mesh_size = data.mesh_size]
    ELSE [Rectangle(data.id, data.center_y, data.center_z, data.width, data.height) EXCEPT
            !.material_id = data.material_id, !.mesh_size = data.mesh_size]

\* the ring of the shape's geometry: Rectangle._generate_vertices without the
\* closing point (as _create_geometry drops it), or the polygon's ring
Vertices(shape) ==
    IF "vertices" \in DOMAIN shape
    THEN PolygonRing(shape.vertices)
    ELSE LET half_w == shape.width \div 2
             half_h == shape.height \div 2
         IN << <<shape.center_y - half_w, shape.center_z - half_h>>,
               <<shape.center_y + half_w, shape.center_z - half_h>>,
               <<shape.center_y + half_w, shape.center_z + half_h>>,
               <<shape.center_y - half_w, shape.center_z + half_h>> >>

\* shapely bounds of the geometry: (min y, min z, max y, max z)
Bounds(shape) ==
    LET vs == Vertices(shape)
        ys == {vs[i][1] : i \in 1..Len(vs)}
        zs == {vs[i][2] : i \in 1..Len(vs)}
    IN << CHOOSE a \in ys : \A b \in ys : a <= b,
          CHOOSE a \in zs : \A b \in zs : a <= b,
          CHOOSE a \in ys : \A b \in ys : a >= b,
          CHOOSE a \in zs : \A b \in zs : a >= b >>

\* cross product (b - a) x (p - a); the vertex ring is counter-clockwise
Cross(a, b, p) == (b[1] - a[1]) * (p[2] - a[2]) - (b[2] - a[2]) * (p[1] - a[1])

EdgeSides(ring, p) ==
    {Cross(ring[i], ring[(i % Len(ring)) + 1], p) : i \in 1..Len(ring)}

\* shapely geometry.contains(Point): the interior only
GeomContains(shape, p) == \A c \in EdgeSides(Vertices(shape), p) : c > 0

\* shapely geometry.touches(Point): the boundary only
GeomTouches(shape, p) ==
    /\ \A c \in EdgeSides(Vertices(shape), p) : c >= 0
    /\ \E c \in EdgeSides(Vertices(shape), p) : c = 0

\* Shape.is_point_inside
IsPointInside(shape, p) == GeomContains(shape, p)

\* -------------------------------------------------------------------- mesh
\* Mesh.__init__; node and element indices are 0-based as in the program,
\* so node index n is nodes[n + 1]
NewMesh(mesh_id) ==
    [id |-> mesh_id, nodes |-> <<>>, elements |-> <<>>,
     element_materials |-> <<>>, fibers |-> <<>>]

\* Fiber.__init__
Fiber(fiber_id, y, z, area, material_id) ==
    [id |-> fiber_id, y |-> y, z |-> z, area |-> area,
     material_id |-> material_id, active |-> TRUE]

NodeAt(mesh, n) == mesh.nodes[n + 1]

\* twice the signed shoelace area of a polygon given by its vertex sequence
Shoelace2(pts) ==
    SumSeq([i \in 1..Len(pts) |->
        LET p == pts[i]
            q == pts[(i % Len(pts)) + 1]
        IN p[1] * q[2] - q[1] * p[2]])

\* shapely Polygon.area
PolyArea(pts) == Abs(Shoelace2(pts)) \div 2

\* shapely Polygon.centroid: area-weighted centroid
PolyCentroid(pts) ==
    LET a2 == Shoelace2(pts)
        sy == SumSeq([i \in 1..Len(pts) |->
                 LET p == pts[i]
                     q == pts[(i % Len(pts)) + 1]
                 IN (p[1] + q[1]) * (p[1] * q[2] - q[1] * p[2])])
        sz == SumSeq([i \in 1..Len(pts) |->
                 LET p == pts[i]
                     q == pts[(i % Len(pts)) + 1]
                 IN (p[2] + q[2]) * (p[1] * q[2] - q[1] * p[2])])
        sgn == IF a2 < 0 THEN -1 ELSE 1
    IN << (sgn * sy) \div (3 * sgn * a2), (sgn * sz) \div (3 * sgn * a2) >>

\* variant: the loop without the break, so the last shape that is active,
\* contains the point and has a material decides
RECURSIVE ResolveMaterial_LastWins(_, _)
ResolveMaterial_LastWins(shapes, p) ==
    IF shapes = <<>> THEN DefaultMaterial
    ELSE LET shape == shapes[Len(shapes)]
         IN IF shape.active /\ IsPointInside(shape, p) /\ ~IsNone(shape.material_id)
            THEN Val(shape.material_id)
            ELSE ResolveMaterial_LastWins(SubSeq(shapes, 1, Len(shapes) - 1), p)

\* material resolution loop of Mesh.generate_fibers (first active shape that
\* contains the centroid; its material_id unless that is None)
RECURSIVE ResolveMaterial(_, _)
ResolveMaterial(shapes, p) ==
    IF shapes = <<>> THEN DefaultMaterial
    ELSE LET shape == Head(shapes)
         IN IF shape.active /\ IsPointInside(shape, p)
            THEN IF ~IsNone(shape.material_id)
                 THEN Val(shape.material_id) ELSE DefaultMaterial
            ELSE ResolveMaterial(Tail(shapes), p)

\* the Fiber of one element: centroid, area and material of its polygon
ElementFiber(fiber_id, centroid, area, shapes) ==
    Fiber(fiber_id, centroid[1], centroid[2], area, ResolveMaterial(shapes, centroid))

\* node coordinates of an element
NodeCoords(mesh, element) == [k \in 1..Len(element) |-> NodeAt(mesh, element[k])]

\* the fibers the loop of generate_fibers appends, one per element
FreshFibers(mesh, shapes) ==
    [i \in 1..Len(mesh.elements) |->
        ElementFiber(i, PolyCentroid(NodeCoords(mesh, mesh.elements[i])),
                     PolyArea(NodeCoords(mesh, mesh.elements[i])), shapes)]

\* variant: generate_fibers without the reset of self.fibers, so the fresh
\* fibers pile up behind the ones of an earlier call
GenerateFibers_Accumulate(mesh, shapes) == mesh.fibers \o FreshFibers(mesh, shapes)

\* Mesh.generate_fibers: the list assigned to mesh.fibers and returned
GenerateFibers(mesh, shapes) == FreshFibers(mesh, shapes)

\* ---------------------------------------------------------- mesh generator
\* outcome of a per-shape strategy: a Mesh, None (status "none") or an
\* exception that leaves the strategy (status "raise")
StrategyResult(status, mesh, next_id) ==
    [status |-> status, mesh |-> mesh, next_id |-> next_id]

\* mesh size coercion at the head of both strategies: None -> 0.1; float()
\* of a number succeeds and keeps zero and negative values
CoerceMeshSize(mesh_size) ==
    IF IsNone(mesh_size) THEN DefaultMeshSize ELSE Val(mesh_size)

\* the node loop of _generate_quad_mesh: row i, column j is node i * (num_y + 1) + j
QuadNodes(min_y, min_z, width, height, num_y, num_z) ==
    [k \in 1..((num_z + 1) * (num_y + 1)) |->
        << min_y + (((k - 1) % (num_y + 1)) * width) \div num_y,
           min_z + (((k - 1) \div (num_y + 1)) * height) \div num_z >>]

\* node_grid[i][j]
NodeGrid(i, j, num_y) == i * (num_y + 1) + j

\* the candidate cell of row i, column j: n1, n2, n3, n4
QuadCell(i, j, num_y) ==
    << NodeGrid(i, j, num_y), NodeGrid(i, j + 1, num_y),
       NodeGrid(i + 1, j + 1, num_y), NodeGrid(i + 1, j, num_y) >>

\* the cells in the order of the element loop
QuadCells(num_y, num_z) ==
    [k \in 1..(num_z * num_y) |-> QuadCell((k - 1) \div num_y, (k - 1) % num_y, num_y)]

\* inside_count of a cell: corners the shape contains or touches
InsideCount(shape, nodes, cell) ==
    Cardinality({c \in 1..4 :
        \/ GeomContains(shape, nodes[cell[c] + 1])
        \/ GeomTouches(shape, nodes[cell[c] + 1])})

\* variant: a cell is kept only when all four corners pass
QuadGridMesh_AllFour(shape, current_mesh_id, nodes, cells) ==
    LET Keep(cell) == InsideCount(shape, nodes, cell) = 4
    IN [NewMesh(current_mesh_id) EXCEPT
          !.nodes = nodes,
          !.elements = SelectSeq(cells, Keep),
          !.element_materials = [k \in 1..Len(SelectSeq(cells, Keep)) |-> 1]]

\* the mesh of the grid: the nodes, and the cells with inside_count >= 3
QuadGridMesh(shape, current_mesh_id, nodes, cells) ==
    LET Keep(cell) == InsideCount(shape, nodes, cell) >= 3
    IN [NewMesh(current_mesh_id) EXCEPT
          !.nodes = nodes,
          !.elements = SelectSeq(cells, Keep),
          !.element_materials = [k \in 1..Len(SelectSeq(cells, Keep)) |-> 1]]

\* _generate_quad_mesh from the grid counts on
QuadGrid(shape, current_mesh_id, min_y, min_z, width, height, num_y, num_z) ==
    StrategyResult("ok",
        QuadGridMesh(shape, current_mesh_id,
                     QuadNodes(min_y, min_z, width, height, num_y, num_z),
                     QuadCells(num_y, num_z)),
        current_mesh_id + 1)

\* _generate_quad_mesh from the bounding box (min y, min z, max y, max z) on
QuadFromBounds(shape, ms, b, current_mesh_id) ==
    IF ms = 0
    THEN \* ZeroDivisionError in width / mesh_size, after Mesh() was created
         StrategyResult("raise", NewMesh(current_mesh_id), current_mesh_id + 1)
    ELSE QuadGrid(shape, current_mesh_id, b[1], b[2], b[3] - b[1], b[4] - b[2],
                  Max(2, TruncDiv(b[3] - b[1], ms)), Max(2, TruncDiv(b[4] - b[2], ms)))

\* MeshGenerator._generate_quad_mesh([shape], mesh_size) for an active shape
GenerateQuadMesh(shape, mesh_size, current_mesh_id) ==
    QuadFromBounds(shape, CoerceMeshSize(mesh_size), Bounds(shape), current_mesh_id)

\* coordinate swap between the section plane (y, z) and the triangulation
\* library's (x, y): (y, z) -> (z, y) on the way in, add_node(y, x) on the way out
Swap(p) == <<p[2], p[1]>>

\* what the triangulation library can answer for a rectangular ring
TriLibOutcomes == {"error", "tri3", "tri6"}

\* section.mesh['vertices'] / section.mesh['triangles'] of the library for the
\* exterior ring it was given: four linear triangles around the centre
\* ("tri3") or two six-node triangles with mid-side nodes ("tri6")
LibMesh(ring, outcome) ==
    LET mid(p, q) == << (p[1] + q[1]) \div 2, (p[2] + q[2]) \div 2 >>
    IN IF outcome = "tri3"
       THEN [vertices  |-> ring \o << mid(ring[1], ring[3]) >>,
             triangles |-> << <<0, 1, 4>>, <<1, 2, 4>>, <<2, 3, 4>>, <<3, 0, 4>> >>]
       ELSE [vertices  |-> ring \o << mid(ring[1], ring[2]), mid(ring[2], ring[3]),
                                      mid(ring[3], ring[4]), mid(ring[4], ring[1]),
                                      mid(ring[1], ring[3]) >>,
             triangles |-> << <<0, 1, 2, 4, 5, 8>>, <<0, 2, 3, 8, 6, 7>> >>]

\* the node and element extraction of _generate_tri_mesh from the library's answer
TriMeshOf(lib_mesh, current_mesh_id) ==
    [NewMesh(current_mesh_id) EXCEPT
       !.nodes = [i \in 1..Len(lib_mesh.vertices) |-> Swap(lib_mesh.vertices[i])],
       !.elements = [i \in 1..Len(lib_mesh.triangles) |-> SubSeq(lib_mesh.triangles[i], 1, 3)],
       !.element_materials = [i \in 1..Len(lib_mesh.triangles) |-> 1]]

\* exterior_coords handed to the library: (z, y) of each vertex
ExteriorCoords(vertices) == [i \in 1..Len(vertices) |-> Swap(vertices[i])]

\* variant: the library's exception is not caught
GenerateTriMesh_Uncaught(shape, mesh_size, current_mesh_id, outcome) ==
    IF outcome = "error"
    THEN StrategyResult("raise", NewMesh(0), current_mesh_id)
    ELSE StrategyResult("ok",
             TriMeshOf(LibMesh(ExteriorCoords(Vertices(shape)), outcome), current_mesh_id),
             current_mesh_id + 1)

\* MeshGenerator._generate_tri_mesh([shape], mesh_size) for an active shape
GenerateTriMesh(shape, mesh_size, current_mesh_id, outcome) ==
    IF outcome = "error"
    THEN \* create_mesh / Section raised: caught, return None
         StrategyResult("none", NewMesh(0), current_mesh_id)
    ELSE StrategyResult("ok",
             TriMeshOf(LibMesh(ExteriorCoords(Vertices(shape)), outcome), current_mesh_id),
             current_mesh_id + 1)

\* variant: the node offset read after the shape's nodes were appended
MergeShapeMesh_OffsetAfterAppend(merged_mesh, shape_mesh, shape) ==
    LET node_mapping(old_id) == Len(merged_mesh.nodes) + Len(shape_mesh.nodes) + old_id
        mapped == [e \in 1..Len(shape_mesh.elements) |->
                      [k \in 1..Len(shape_mesh.elements[e]) |->
                          node_mapping(shape_mesh.elements[e][k])]]
        material == IF IsNone(shape.material_id) \/ Val(shape.material_id) = 0
                    THEN 1 ELSE Val(shape.material_id)
    IN [merged_mesh EXCEPT
          !.nodes = @ \o shape_mesh.nodes,
          !.elements = @ \o mapped,
          !.element_materials = @ \o [e \in 1..Len(mapped) |-> material]]

\* variant: elements copied with the shape's local node indices
MergeShapeMesh_NoOffset(merged_mesh, shape_mesh, shape) ==
    LET material == IF IsNone(shape.material_id) \/ Val(shape.material_id) = 0
                    THEN 1 ELSE Val(shape.material_id)
    IN [merged_mesh EXCEPT
          !.nodes = @ \o shape_mesh.nodes,
          !.elements = @ \o shape_mesh.elements,
          !.element_materials = @ \o [e \in 1..Len(shape_mesh.elements) |-> material]]

\* the merge step of generate_mesh: append the shape mesh's nodes, remap its
\* elements through node_mapping (old node id -> new node id)
MergeShapeMesh(merged_mesh, shape_mesh, shape) ==
    LET node_mapping(old_id) == Len(merged_mesh.nodes) + old_id
        mapped == [e \in 1..Len(shape_mesh.elements) |->
                      [k \in 1..Len(shape_mesh.elements[e]) |->
                          node_mapping(shape_mesh.elements[e][k])]]
        material == IF IsNone(shape.material_id) \/ Val(shape.material_id) = 0
                    THEN 1 ELSE Val(shape.material_id)
    IN [merged_mesh EXCEPT
          !.nodes = @ \o shape_mesh.nodes,
          !.elements = @ \o mapped,
          !.element_materials = @ \o [e \in 1..Len(mapped) |-> material]]

\* the result of generate_mesh: status "ok" with the merged mesh, "none"
\* (returned None) or "raise"; next_id is current_mesh_id afterwards; log has
\* one entry per merged shape, the counts printed after each merge
GenResult(status, mesh, next_id, log) ==
    [status |-> status, mesh |-> mesh, next_id |-> next_id, log |-> log]

\* the strategy dispatch of generate_mesh for one active shape;
\* getattr(shape, 'mesh_size', global_mesh_size): the attribute always exists,
\* so the default is never taken
ShapeMesh(shape, current_mesh_id, outcome) ==
    IF shape.mesh_type = "quadrilateral"
    THEN GenerateQuadMesh(shape, shape.mesh_size, current_mesh_id)
    ELSE GenerateTriMesh(shape, shape.mesh_size, current_mesh_id, outcome)

\* the counts printed after a shape's mesh was merged
MergeLog(i, shape_mesh) ==
    [shape |-> i, nodes |-> Len(shape_mesh.nodes), elements |-> Len(shape_mesh.elements)]

RECURSIVE GenerateLoop(_, _, _, _, _, _)
RECURSIVE AfterShapeMesh(_, _, _, _, _, _)
\* the loop over shapes of generate_mesh, from shape i on
GenerateLoop(shapes, i, merged_mesh, current_mesh_id, lib, log) ==
    IF i > Len(shapes) THEN GenResult("ok", merged_mesh, current_mesh_id, log)
    ELSE IF ~shapes[i].active
    THEN GenerateLoop(shapes, i + 1, merged_mesh, current_mesh_id, lib, log)
    ELSE AfterShapeMesh(shapes, i, merged_mesh,
                        ShapeMesh(shapes[i], current_mesh_id, lib[i]), lib, log)

\* the rest of the loop body once the strategy answered r for shape i
AfterShapeMesh(shapes, i, merged_mesh, r, lib, log) ==
    CASE r.status = "raise" ->
            GenResult("raise", merged_mesh, r.next_id, log)
      [] r.status = "none" ->
            GenerateLoop(shapes, i + 1, merged_mesh, r.next_id, lib, log)
      [] OTHER ->
            GenerateLoop(shapes, i + 1, MergeShapeMesh(merged_mesh, r.mesh, shapes[i]),
                         r.next_id, lib, Append(log, MergeLog(i, r.mesh)))

\* MeshGenerator.generate_mesh(shapes, global_mesh_size); lib[i] is what the
\* triangulation library answers for shape i
GenerateMesh(shapes, global_mesh_size, current_mesh_id, lib) ==
    IF shapes = <<>>
    THEN GenResult("none", NewMesh(0), current_mesh_id, <<>>)
    ELSE GenerateLoop(shapes, 1, NewMesh(current_mesh_id), current_mesh_id + 1, lib, <<>>)


\* ------------------------------------------------------------------- state
VARIABLES
    shape_objs,       \* the Shape objects created so far; a handle is an index
    section,          \* SectionData: shapes (handles), mesh (mesh id, 0 = None), fibers
    meshes,           \* the Mesh objects handed to DataManager, by mesh id
    undo_stack,       \* DataManager.undo_stack (top = last)
    redo_stack,       \* DataManager.redo_stack (top = last)
    current_mesh_id,  \* MeshGenerator.current_mesh_id
    n_commands,       \* commands executed so far (bounded by MaxCommands)
    n_manual,         \* manual fiber additions so far (bounded by MaxManual)
    n_deletes,        \* fiber deletions so far (bounded by MaxDeletes)
    trail,            \* handlers since the last generate_mesh call, while they
                      \* form generate / undo / shape edits / redo
    snap_pre,         \* mesh, fibers and mesh.fibers before the last execute
    snap_post,        \* mesh, fibers and mesh.fibers after the last generate_mesh call
    gen_in,           \* SpecMesh: the arguments of generate_mesh;
                      \* SpecData: the arguments of the constructor / round trip
    gen_out           \* SpecMesh: its result, and the fibers of the result;
                      \* SpecData: the result of the call

vars == <<shape_objs, section, meshes, undo_stack, redo_stack, current_mesh_id,
          n_commands, n_manual, n_deletes, trail, snap_pre, snap_post,
          gen_in, gen_out>>

\* ----------------------------------------------------------------- section
NoMesh == 0

\* SectionData.__init__
NewSection == [shapes |-> <<>>, mesh |-> NoMesh, fibers |-> <<>>]

\* the Shape objects of section.shapes, in list order
ShapeList(sec, objs) == [i \in 1..Len(sec.shapes) |-> objs[sec.shapes[i]]]

\* SectionData.get_active_shapes
IsActiveShape(shape) == shape.active

GetActiveShapes(sec, objs) == SelectSeq(ShapeList(sec, objs), IsActiveShape)

\* position in section.shapes of the first shape with this id, 0 if none
\* (the loops of get_shape_by_id and remove_shape)
FirstWithId(sec, objs, shape_id) ==
    LET hits == {i \in 1..Len(sec.shapes) : objs[sec.shapes[i]].id = shape_id}
    IN IF hits = {} THEN 0 ELSE CHOOSE i \in hits : \A j \in hits : i <= j

\* SectionData.add_shape
AddShape(sec, handle) == [sec EXCEPT !.shapes = Append(@, handle)]

\* SectionData.remove_shape
RemoveShape(sec, objs, shape_id) ==
    LET i == FirstWithId(sec, objs, shape_id)
    IN IF i = 0 THEN sec
       ELSE [sec EXCEPT !.shapes = SubSeq(@, 1, i - 1) \o SubSeq(@, i + 1, Len(@))]

\* SectionData.get_opensees_section_command: the fiber(...) commands, as
\* (y, z, area, material_id), of the active fibers of mesh.fibers when the
\* section has a mesh with fibers, of section.fibers otherwise
FiberCommands(fibers) ==
    LET IsActiveFiber(fiber) == fiber.active
        active_fibers == SelectSeq(fibers, IsActiveFiber)
    IN [k \in 1..Len(active_fibers) |->
          <<active_fibers[k].y, active_fibers[k].z, active_fibers[k].area,
            active_fibers[k].material_id>>]

GetOpenseesSectionCommand(sec, ms) ==
    IF sec.mesh # NoMesh /\ ms[sec.mesh].fibers # <<>>
    THEN FiberCommands(ms[sec.mesh].fibers)
    ELSE FiberCommands(sec.fibers)

\* ids of a fiber list
FiberIds(fibers) == {fibers[i].id : i \in 1..Len(fibers)}

\* variant: on an id collision the new mesh fiber replaces the existing one
MergeFibers_NewWins(existing_fibers, new_mesh_fibers) ==
    LET new_ids == FiberIds(new_mesh_fibers)
        Kept(fiber) == fiber.id \notin new_ids
    IN SelectSeq(existing_fibers, Kept) \o new_mesh_fibers

\* the merge of OperationGenerateMesh.execute: the existing fibers, then the
\* new mesh fibers whose id is not among the existing ones
MergeFibers(existing_fibers, new_mesh_fibers) ==
    LET existing_fiber_ids == FiberIds(existing_fibers)
        Novel(fiber) == fiber.id \notin existing_fiber_ids
    IN existing_fibers \o SelectSeq(new_mesh_fibers, Novel)

\* -------------------------------------------------------------- operations
\* Operation objects; shape is a handle (0 when unused), meshes are mesh ids
OperationAddShape(handle) ==
    [kind |-> "AddShape", shape |-> handle,
     old_mesh |-> NoMesh, new_mesh |-> NoMesh, old_fibers |-> <<>>]

OperationDeleteShape(handle) ==
    [kind |-> "DeleteShape", shape |-> handle,
     old_mesh |-> NoMesh, new_mesh |-> NoMesh, old_fibers |-> <<>>]

OperationGenerateMesh(old_mesh, new_mesh) ==
    [kind |-> "GenerateMesh", shape |-> 0,
     old_mesh |-> old_mesh, new_mesh |-> new_mesh, old_fibers |-> <<>>]

\* the effect of a command on the program: the section, the Mesh objects,
\* the operation itself, and whether an exception left the call
Effect(sec, ms, op, raised) ==
    [section |-> sec, meshes |-> ms, op |-> op, raised |-> raised]

\* variant: the mesh is handed the merged list
NewMeshOwnFibers_Merged(merged_fibers, new_mesh_fibers) == merged_fibers

\* the fibers assigned to new_mesh.fibers at the end of execute
NewMeshOwnFibers(merged_fibers, new_mesh_fibers) == new_mesh_fibers

\* the end of execute: section.set_mesh, section.set_fibers(merged_fibers), and
\* new_mesh.fibers = new_mesh_fibers, which raises AttributeError on None
\* after the section was already updated
ExecuteStore(op, sec, ms, new_mesh_fibers, merged_fibers) ==
    Effect([sec EXCEPT !.mesh = op.new_mesh, !.fibers = merged_fibers],
           IF op.new_mesh # NoMesh
           THEN [ms EXCEPT ![op.new_mesh].fibers =
                    NewMeshOwnFibers(merged_fibers, new_mesh_fibers)]
           ELSE ms,
           [op EXCEPT !.old_fibers = sec.fibers],
           op.new_mesh = NoMesh)

\* execute from existing_fibers on, given the fibers generated from the mesh
ExecuteMerge(op, sec, ms, new_mesh_fibers) ==
    ExecuteStore(op, sec, ms, new_mesh_fibers, MergeFibers(sec.fibers, new_mesh_fibers))

\* OperationGenerateMesh.execute
ExecuteGenerateMesh(op, sec, ms, objs) ==
    ExecuteMerge(op, sec, ms,
                 IF op.new_mesh # NoMesh
                 THEN GenerateFibers(ms[op.new_mesh], GetActiveShapes(sec, objs))
                 ELSE <<>>)

\* variant: undo taking its last branch, section.set_fibers([])
UndoSectionFibers_Empty(op) == <<>>

\* the fibers undo puts back into section.fibers (old_fibers is a list once
\* execute has run, which it has for every operation on a stack)
UndoSectionFibers(op) == op.old_fibers

\* the fibers undo assigns to old_mesh.fibers
UndoOldMeshFibers(op, ms) == op.old_fibers

\* OperationGenerateMesh.undo
UndoGenerateMesh(op, sec, ms, objs) ==
    Effect([sec EXCEPT !.mesh = op.old_mesh, !.fibers = UndoSectionFibers(op)],
           IF op.old_mesh # NoMesh
           THEN [ms EXCEPT ![op.old_mesh].fibers = UndoOldMeshFibers(op, ms)]
           ELSE ms,
           op, FALSE)

\* Operation.execute, by operation class
Execute(op, sec, ms, objs) ==
    CASE op.kind = "AddShape"    -> Effect(AddShape(sec, op.shape), ms, op, FALSE)
      [] op.kind = "DeleteShape" -> Effect(RemoveShape(sec, objs, objs[op.shape].id), ms, op, FALSE)
      [] OTHER                   -> ExecuteGenerateMesh(op, sec, ms, objs)

\* Operation.undo, by operation class
UndoOp(op, sec, ms, objs) ==
    CASE op.kind = "AddShape"    -> Effect(RemoveShape(sec, objs, objs[op.shape].id), ms, op, FALSE)
      [] op.kind = "DeleteShape" -> Effect(AddShape(sec, op.shape), ms, op, FALSE)
      [] OTHER                   -> UndoGenerateMesh(op, sec, ms, objs)


\* --------------------------------------------------------- inputs (GUI)
\* the rectangle the geometry tab is asked for: [0,12]x[0,12]
ShapeParams ==
    { [center_y |-> 6,  center_z |-> 6, width |-> 12, height |-> 12] }

\* material ids typed into the "assign material" dialog
MaterialChoices == {2}

\* fiber counts typed into the line and the radial fiber dialog
LineNumFibers == {2}

RadialNumFibers == {1}

\* fiber_area typed into the line / radial fiber dialogs (> 0, so it is used as is)
ManualArea == 5

ManualMaterial == 3

\* cos and sin of the angles the radial generator meets here (0 and 180 degrees)
CosDeg(angle_deg) == IF angle_deg = 0 THEN 1 ELSE -1

SinDeg(angle_deg) == 0

\* CircleFiberGenerator.generate_line_circular_fibers from (3,3) to (9,9)
GenerateLineCircularFibers(num_fibers) ==
    LET start_y == 3
        start_z == 3
        dy == 9 - start_y
        dz == 9 - start_z
    IN [k \in 1..num_fibers |->
          LET i == k - 1
          IN IF num_fibers > 1
             THEN Fiber(i + 1, start_y + (i * dy) \div (num_fibers - 1),
                        start_z + (i * dz) \div (num_fibers - 1),
                        ManualArea, ManualMaterial)
             ELSE Fiber(i + 1, start_y + dy \div 2, start_z + dz \div 2,
                        ManualArea, ManualMaterial)]

\* CircleFiberGenerator.generate_radial_circular_fibers around (6,6), radius 3,
\* from 0 to 360 degrees
GenerateRadialCircularFibers(num_fibers) ==
    LET angle_range == 360
    IN [k \in 1..num_fibers |->
          LET i == k - 1
              angle_deg == 0 + (i * angle_range) \div num_fibers
          IN Fiber(i + 1, 6 + 3 * CosDeg(angle_deg), 6 + 3 * SinDeg(angle_deg),
                   ManualArea, ManualMaterial)]

\* ---------------------------------------------------------- bookkeeping
\* section.mesh, section.fibers and the fibers of the section's mesh object
Snap(sec, ms) ==
    [mesh |-> sec.mesh, fibers |-> sec.fibers,
     mesh_fibers |-> IF sec.mesh # NoMesh THEN ms[sec.mesh].fibers ELSE <<>>]

NoSnap == [mesh |-> NoMesh, fibers |-> <<>>, mesh_fibers |-> <<>>]

Last(stack) == stack[Len(stack)]

Front(stack) == SubSeq(stack, 1, Len(stack) - 1)

\* the handler is not part of a generate / undo / edit / redo sequence
ResetTrail == trail' = <<>> /\ snap_pre' = NoSnap /\ snap_post' = NoSnap

EditTrail ==
    IF trail \in {<<"generate", "undo">>, <<"generate", "undo", "edit">>}
    THEN trail' = <<"generate", "undo", "edit">> /\ UNCHANGED <<snap_pre, snap_post>>
    ELSE ResetTrail

\* -------------------------------------------------------------- DataManager
\* SectionData.create_shape for a rectangle
CreateShape(sec, params) ==
    Rectangle(Len(sec.shapes) + 1, params.center_y, params.center_z,
              params.width, params.height)

\* the tail of DataManager.add_shape / delete_shape / generate_mesh after
\* operation.execute returned e: push on the undo stack, clear the redo stack
Pushed(e) ==
    /\ section' = e.section
    /\ meshes' = e.meshes
    /\ undo_stack' = Append(undo_stack, e.op)
    /\ redo_stack' = <<>>

\* main_window._on_add_shape: create_shape, then DataManager.add_shape
OnAddShape(params) ==
    /\ Len(shape_objs) < MaxShapes
    /\ n_commands < MaxCommands
    /\ shape_objs' = Append(shape_objs, CreateShape(section, params))
    /\ Pushed(Execute(OperationAddShape(Len(shape_objs) + 1), section, meshes, shape_objs'))
    /\ n_commands' = n_commands + 1
    /\ ResetTrail
    /\ UNCHANGED <<current_mesh_id, n_manual, n_deletes, gen_in, gen_out>>

\* control_panel._on_delete_shape for one selected list item, DataManager.delete_shape
OnDeleteShape(shape_id) ==
    /\ n_commands < MaxCommands
    /\ FirstWithId(section, shape_objs, shape_id) # 0
    /\ Pushed(Execute(OperationDeleteShape(
                         section.shapes[FirstWithId(section, shape_objs, shape_id)]),
                      section, meshes, shape_objs))
    /\ n_commands' = n_commands + 1
    /\ ResetTrail
    /\ UNCHANGED <<shape_objs, current_mesh_id, n_manual, n_deletes, gen_in, gen_out>>

\* DataManager.generate_mesh once operation.execute ended with e: an
\* exception leaves the call before the operation is pushed
GenerateMeshDone(e) ==
    /\ snap_pre' = Snap(section, meshes)
    /\ snap_post' = Snap(e.section, e.meshes)
    /\ IF e.raised
       THEN /\ section' = e.section
            /\ meshes' = e.meshes
            /\ UNCHANGED <<undo_stack, redo_stack>>
            /\ trail' = <<"generate_raised">>
       ELSE /\ Pushed(e)
            /\ trail' = <<"generate">>

\* DataManager.generate_mesh(section_id, mesh) on the program state; new_ms
\* holds the Mesh object when mesh is not None
DataManagerGenerateMesh(mesh_id, new_ms) ==
    GenerateMeshDone(Execute(OperationGenerateMesh(section.mesh, mesh_id),
                             section, new_ms, shape_objs))

\* _on_generate_mesh after MeshGenerator.generate_mesh answered r:
\* Mesh.generate_fibers on the mesh, then DataManager.generate_mesh
MeshGenerated(r, active_shapes) ==
    /\ r.status = "ok"
    /\ current_mesh_id' = r.next_id
    /\ DataManagerGenerateMesh(r.mesh.id,
          (r.mesh.id :> [r.mesh EXCEPT !.fibers = GenerateFibers(r.mesh, active_shapes)])
             @@ meshes)

\* main_window._on_generate_mesh: MeshGenerator.generate_mesh on the active
\* shapes, Mesh.generate_fibers, then DataManager.generate_mesh
OnGenerateMesh(lib) ==
    /\ n_commands < MaxCommands
    /\ GetActiveShapes(section, shape_objs) # <<>>
    /\ MeshGenerated(GenerateMesh(GetActiveShapes(section, shape_objs), DefaultMeshSize,
                                  current_mesh_id, lib),
                     GetActiveShapes(section, shape_objs))
    /\ n_commands' = n_commands + 1
    /\ UNCHANGED <<shape_objs, n_manual, n_deletes, gen_in, gen_out>>

\* SectionManager.generate_mesh(section_id, None): DataManager.generate_mesh
\* raises and the exception is swallowed (returns False)
GenerateMeshNone ==
    /\ n_commands < MaxCommands
    /\ DataManagerGenerateMesh(NoMesh, meshes)
    /\ n_commands' = n_commands + 1
    /\ UNCHANGED <<shape_objs, current_mesh_id, n_manual, n_deletes, gen_in, gen_out>>

\* variant: undo without the push on the redo stack
Undone_OperationDropped(e) ==
    /\ section' = e.section
    /\ meshes' = e.meshes
    /\ undo_stack' = Front(undo_stack)
    /\ redo_stack' = redo_stack

\* undo once operation.undo returned e
Undone(e) ==
    /\ section' = e.section
    /\ meshes' = e.meshes
    /\ undo_stack' = Front(undo_stack)
    /\ redo_stack' = Append(redo_stack, e.op)

\* DataManager.undo
Undo ==
    /\ IF undo_stack = <<>>
       THEN UNCHANGED <<section, meshes, undo_stack, redo_stack>>
       ELSE Undone(UndoOp(Last(undo_stack), section, meshes, shape_objs))
    /\ IF trail = <<"generate">>
       THEN trail' = <<"generate", "undo">> /\ UNCHANGED <<snap_pre, snap_post>>
       ELSE IF trail \in {<<"add">>, <<"delete">>}
       THEN trail' = Append(trail, "undo") /\ UNCHANGED <<snap_pre, snap_post>>
       ELSE ResetTrail
    /\ UNCHANGED <<shape_objs, current_mesh_id, n_commands, n_manual, n_deletes,
                   gen_in, gen_out>>

\* redo once operation.execute returned e
Redone(e) ==
    /\ section' = e.section
    /\ meshes' = e.meshes
    /\ redo_stack' = Front(redo_stack)
    /\ undo_stack' = Append(undo_stack, e.op)

\* DataManager.redo
Redo ==
    /\ IF redo_stack = <<>>
       THEN UNCHANGED <<section, meshes, undo_stack, redo_stack>>
       ELSE Redone(Execute(Last(redo_stack), section, meshes, shape_objs))
    /\ IF trail \in {<<"generate", "undo">>, <<"generate", "undo", "edit">>}
       THEN /\ trail' = Append(trail, "redo")
            /\ snap_pre' = Snap(section, meshes)
            /\ UNCHANGED snap_post
       ELSE IF redo_stack # <<>> /\ Last(redo_stack).kind = "GenerateMesh"
       THEN /\ trail' = <<"redo">>
            /\ snap_pre' = Snap(section, meshes)
            /\ snap_post' = NoSnap
       ELSE ResetTrail
    /\ UNCHANGED <<shape_objs, current_mesh_id, n_commands, n_manual, n_deletes,
                   gen_in, gen_out>>

\* ------------------------------------------------------------ shape edits
\* control_panel._on_shape_item_changed: the list checkbox sets shape.active
OnShapeItemChanged(shape_id, is_active) ==
    /\ FirstWithId(section, shape_objs, shape_id) # 0
    /\ LET handle == section.shapes[FirstWithId(section, shape_objs, shape_id)]
       IN shape_objs' = [shape_objs EXCEPT ![handle].active = is_active]
    /\ EditTrail
    /\ UNCHANGED <<section, meshes, undo_stack, redo_stack, current_mesh_id, n_commands,
                   n_manual, n_deletes, gen_in, gen_out>>

\* control_panel._assign_shape_material with the dialog accepted
AssignShapeMaterial(shape_id, material_id) ==
    /\ FirstWithId(section, shape_objs, shape_id) # 0
    /\ LET handle == section.shapes[FirstWithId(section, shape_objs, shape_id)]
       IN shape_objs' = [shape_objs EXCEPT ![handle].material_id = Some(material_id)]
    /\ EditTrail
    /\ UNCHANGED <<section, meshes, undo_stack, redo_stack, current_mesh_id, n_commands,
                   n_manual, n_deletes, gen_in, gen_out>>

\* ----------------------------------------------------------- manual fibers
\* the part of _on_add_line_circle_fiber / _on_add_radial_circle_fiber after
\* the generator: renumber from the section's fiber count, then store
AddManualFibers(sec, ms, generated) ==
    LET current_fiber_count == Len(sec.fibers)
        fibers == [k \in 1..Len(generated) |->
                      [generated[k] EXCEPT !.id = current_fiber_count + (k - 1) + 1]]
    IN IF sec.mesh # NoMesh /\ ms[sec.mesh].fibers # <<>>
       THEN Effect([sec EXCEPT !.fibers = ms[sec.mesh].fibers \o fibers],
                   [ms EXCEPT ![sec.mesh].fibers = @ \o fibers], 0, FALSE)
       ELSE IF sec.mesh # NoMesh
       THEN Effect([sec EXCEPT !.fibers = fibers],
                   [ms EXCEPT ![sec.mesh].fibers = fibers], 0, FALSE)
       ELSE Effect([sec EXCEPT !.fibers = @ \o fibers], ms, 0, FALSE)

OnAddLineCircleFiber(num_fibers) ==
    /\ n_manual < MaxManual
    /\ LET e == AddManualFibers(section, meshes, GenerateLineCircularFibers(num_fibers))
       IN section' = e.section /\ meshes' = e.meshes
    /\ n_manual' = n_manual + 1
    /\ ResetTrail
    /\ UNCHANGED <<shape_objs, undo_stack, redo_stack, current_mesh_id, n_commands,
                   n_deletes, gen_in, gen_out>>

OnAddRadialCircleFiber(num_fibers) ==
    /\ n_manual < MaxManual
    /\ LET e == AddManualFibers(section, meshes, GenerateRadialCircularFibers(num_fibers))
       IN section' = e.section /\ meshes' = e.meshes
    /\ n_manual' = n_manual + 1
    /\ ResetTrail
    /\ UNCHANGED <<shape_objs, undo_stack, redo_stack, current_mesh_id, n_commands,
                   n_deletes, gen_in, gen_out>>

\* ids shown in the fiber list: section.fibers, then the mesh fibers with other ids
ListedFiberIds(sec, ms) ==
    FiberIds(sec.fibers) \cup
    (IF sec.mesh # NoMesh THEN FiberIds(ms[sec.mesh].fibers) ELSE {})

\* control_panel._on_delete_fiber with one list item selected
OnDeleteFiber(fiber_id) ==
    /\ n_deletes < MaxDeletes
    /\ fiber_id \in ListedFiberIds(section, meshes)
    /\ IF section.mesh # NoMesh /\ meshes[section.mesh].fibers # <<>>
       THEN LET Kept(fiber) == fiber.id # fiber_id
                kept == SelectSeq(meshes[section.mesh].fibers, Kept)
            IN /\ meshes' = [meshes EXCEPT ![section.mesh].fibers = kept]
               /\ section' = [section EXCEPT !.fibers = kept]
       ELSE UNCHANGED <<section, meshes>>
    /\ n_deletes' = n_deletes + 1
    /\ ResetTrail
    /\ UNCHANGED <<shape_objs, undo_stack, redo_stack, current_mesh_id, n_commands,
                   n_manual, gen_in, gen_out>>

\* ------------------------------------------------------------ specifications
NoGenIn == [shapes |-> <<>>, global_mesh_size |-> DefaultMeshSize]

\* lib keeps what the triangulation library answered during the call
NoGenOut == [status |-> "idle", mesh |-> NewMesh(0), next_id |-> 1, log |-> <<>>,
             lib |-> <<>>, fibers_status |-> "idle", fibers |-> <<>>,
             fibers_calls |-> 0]

\* DataManager.__init__ (one default section), MeshGenerator.__init__
InitHist ==
    /\ shape_objs = <<>>
    /\ section = NewSection
    /\ meshes = <<>>
    /\ undo_stack = <<>>
    /\ redo_stack = <<>>
    /\ current_mesh_id = 1
    /\ n_commands = 0
    /\ n_manual = 0
    /\ n_deletes = 0
    /\ trail = <<>>
    /\ snap_pre = NoSnap
    /\ snap_post = NoSnap

Init == InitHist /\ gen_in = NoGenIn /\ gen_out = NoGenOut

ShapeIds == 1..MaxShapes

\* what the triangulation library answers in the editor runs
LibChoices == [1..MaxShapes -> {"error", "tri6"}]

\* the editor as its window drives it
Next ==
    \/ \E params \in ShapeParams : OnAddShape(params)
    \/ \E shape_id \in ShapeIds : OnDeleteShape(shape_id)
    \/ \E lib \in LibChoices : OnGenerateMesh(lib)
    \/ Undo
    \/ Redo
    \/ \E shape_id \in ShapeIds, is_active \in BOOLEAN : OnShapeItemChanged(shape_id, is_active)
    \/ \E shape_id \in ShapeIds, material_id \in MaterialChoices :
          AssignShapeMaterial(shape_id, material_id)
    \/ \E num_fibers \in LineNumFibers : OnAddLineCircleFiber(num_fibers)
    \/ \E num_fibers \in RadialNumFibers : OnAddRadialCircleFiber(num_fibers)
    \/ \E fiber_id \in ListedFiberIds(section, meshes) : OnDeleteFiber(fiber_id)

Spec == Init /\ [][Next]_vars

\* the editor plus a caller that hands None to SectionManager.generate_mesh
NextApi == Next \/ GenerateMeshNone

SpecApi == Init /\ [][NextApi]_vars


\* ------------------------------------- the shape list and its history
\* the shape list before a command, kept while the command and its undo are
\* the last handlers
ShapeSnap(sec) == [shapes |-> sec.shapes]

\* main_window._on_add_shape, in a section that only sees shape commands
ShapesAdd(params) ==
    /\ Len(shape_objs) < MaxShapeObjs
    /\ n_commands < MaxShapeCmds
    /\ shape_objs' = Append(shape_objs, CreateShape(section, params))
    /\ Pushed(Execute(OperationAddShape(Len(shape_objs) + 1), section, meshes, shape_objs'))
    /\ n_commands' = n_commands + 1
    /\ trail' = <<"add">>
    /\ snap_pre' = ShapeSnap(section)
    /\ snap_post' = NoSnap
    /\ UNCHANGED <<current_mesh_id, n_manual, n_deletes, gen_in, gen_out>>

\* control_panel._on_delete_shape for one selected list item
ShapesDelete(shape_id) ==
    /\ n_commands < MaxShapeCmds
    /\ FirstWithId(section, shape_objs, shape_id) # 0
    /\ Pushed(Execute(OperationDeleteShape(
                         section.shapes[FirstWithId(section, shape_objs, shape_id)]),
                      section, meshes, shape_objs))
    /\ n_commands' = n_commands + 1
    /\ trail' = <<"delete">>
    /\ snap_pre' = ShapeSnap(section)
    /\ snap_post' = NoSnap
    /\ UNCHANGED <<shape_objs, current_mesh_id, n_manual, n_deletes, gen_in, gen_out>>

NextShapes ==
    \/ \E params \in ShapeParams : ShapesAdd(params)
    \/ \E shape_id \in 1..MaxShapeObjs : ShapesDelete(shape_id)
    \/ Undo
    \/ Redo

SpecShapes == Init /\ [][NextShapes]_vars


\* ------------------------------ shape construction and serialization
\* a polygon whose sides cut through the cells of its bounding-box grid
IsoscelesTriangle == PolygonShape(1, << <<0, 0>>, <<12, 0>>, <<6, 12>> >>)

\* points of the vertex lists handed to PolygonShape
PolyPoints == { <<0, 0>>, <<12, 0>>, <<6, 12>> }

VertexLists == UNION { [1..n -> PolyPoints] : n \in 0..MaxVertices }

\* the shapes serialized: a rectangle and a polygon with every setting of
\* active, mesh_type, material_id and mesh_size
StoredShapes ==
    { [shape EXCEPT !.active = active, !.mesh_type = mesh_type,
                    !.material_id = material_id, !.mesh_size = mesh_size] :
        shape \in {Rectangle(1, 6, 6, 12, 12), IsoscelesTriangle},
        active \in BOOLEAN, mesh_type \in {"triangular", "quadrilateral"},
        material_id \in {None, Some(2)}, mesh_size \in {None, Some(4)} }

InitData ==
    /\ InitHist
    /\ gen_in \in [call : {"PolygonShape"}, vertices : VertexLists]
                    \cup [call : {"round_trip"}, shape : StoredShapes]
    /\ gen_out = [status |-> "idle"]

\* PolygonShape(shape_id, vertices)
CallPolygonShape ==
    /\ gen_in.call = "PolygonShape"
    /\ gen_out.status = "idle"
    /\ gen_out' = PolygonGeometry(gen_in.vertices)
    /\ UNCHANGED <<gen_in, shape_objs, section, meshes, undo_stack, redo_stack,
                   current_mesh_id, n_commands, n_manual, n_deletes, trail,
                   snap_pre, snap_post>>

\* create_shape_from_dict(shape.to_dict())
CallRoundTrip ==
    /\ gen_in.call = "round_trip"
    /\ gen_out.status = "idle"
    /\ gen_out' = [status |-> "ok", shape |-> CreateShapeFromDict(ToDict(gen_in.shape))]
    /\ UNCHANGED <<gen_in, shape_objs, section, meshes, undo_stack, redo_stack,
                   current_mesh_id, n_commands, n_manual, n_deletes, trail,
                   snap_pre, snap_post>>

NextData == CallPolygonShape \/ CallRoundTrip

SpecData == InitData /\ [][NextData]_vars


\* ------------------------------------------- generate_mesh as a function
\* shapes handed to generate_mesh: [0,12]x[0,12], triangular or quadrilateral,
\* also inactive and with a mesh size of 4 ticks or of zero; [12,24]x[0,12]
\* (shares an edge with the first); [6,18]x[0,12] (overlaps both) with a
\* material; a triangle polygon
PlainShapes ==
    { [Rectangle(1, 6, 6, 12, 12) EXCEPT !.mesh_type = mesh_type] :
        mesh_type \in {"triangular", "quadrilateral"} }
    \cup { Rectangle(1, 18, 6, 12, 12) }

FirstPlain(mesh_type) == [Rectangle(1, 6, 6, 12, 12) EXCEPT !.mesh_type = mesh_type]

MeshShapeSet ==
    PlainShapes
    \cup { [FirstPlain("triangular") EXCEPT !.active = FALSE] }
    \cup { [FirstPlain("quadrilateral") EXCEPT !.mesh_size = Some(4)] }
    \cup { [FirstPlain("quadrilateral") EXCEPT !.mesh_size = Some(0)] }
    \cup { [Rectangle(1, 12, 6, 12, 12) EXCEPT !.material_id = Some(2)] }
    \cup { [IsoscelesTriangle EXCEPT !.mesh_type = "quadrilateral"] }

\* shape lists of every length up to MaxMeshShapes; the shape at position i gets id i
MeshShapeLists ==
    UNION { { [i \in 1..n |-> [f[i] EXCEPT !.id = i]] : f \in [1..n -> MeshShapeSet] } :
            n \in 0..MaxMeshShapes }

\* a global size other than the default 0.1, so that its use would show
GlobalMeshSizes == {4}

\* the call generate_mesh([Rectangle(1, 0, 0, 2, 2) as quadrilateral], 1.0)
SquareCall ==
    [shapes |-> << [Rectangle(1, 0, 0, 120, 120) EXCEPT !.mesh_type = "quadrilateral"] >>,
     global_mesh_size |-> 60]

InitMesh ==
    /\ InitHist
    /\ gen_in \in [shapes : MeshShapeLists, global_mesh_size : GlobalMeshSizes]
                    \cup {SquareCall}
    /\ gen_out = NoGenOut

\* the answer r of generate_mesh, as the caller holds it
Returned(r) ==
    [gen_out EXCEPT !.status = r.status, !.mesh = r.mesh, !.next_id = r.next_id,
                    !.log = r.log]

\* one call of MeshGenerator.generate_mesh
CallGenerateMesh(lib) ==
    /\ gen_out.status = "idle"
    /\ \A i \in 1..MaxMeshShapes :
          (i > Len(gen_in.shapes) \/ ~gen_in.shapes[i].active
             \/ gen_in.shapes[i].mesh_type # "triangular") => lib[i] = "error"
    /\ gen_out' = [Returned(GenerateMesh(gen_in.shapes, gen_in.global_mesh_size, 1, lib))
                      EXCEPT !.lib = lib]
    /\ UNCHANGED <<gen_in, shape_objs, section, meshes, undo_stack, redo_stack,
                   current_mesh_id, n_commands, n_manual, n_deletes, trail,
                   snap_pre, snap_post>>

\* self.nodes[node_id] of generate_fibers raises IndexError past the node list
NodeIndexError(mesh) ==
    \E e \in 1..Len(mesh.elements) : \E k \in 1..Len(mesh.elements[e]) :
        mesh.elements[e][k] >= Len(mesh.nodes)

\* Mesh.generate_fibers on the mesh generate_mesh returned; it may be called
\* again on the same mesh
CallGenerateFibers ==
    /\ gen_out.status = "ok"
    /\ gen_out.fibers_status # "raise"
    /\ gen_out.fibers_calls < MaxFiberCalls
    /\ gen_out' = IF NodeIndexError(gen_out.mesh)
                  THEN [gen_out EXCEPT !.fibers_status = "raise", !.mesh.fibers = <<>>,
                                       !.fibers_calls = @ + 1]
                  ELSE [gen_out EXCEPT !.fibers_status = "ok",
                                       !.fibers = GenerateFibers(gen_out.mesh, gen_in.shapes),
                                       !.mesh.fibers = GenerateFibers(gen_out.mesh, gen_in.shapes),
                                       !.fibers_calls = @ + 1]
    /\ UNCHANGED <<gen_in, shape_objs, section, meshes, undo_stack, redo_stack,
                   current_mesh_id, n_commands, n_manual, n_deletes, trail,
                   snap_pre, snap_post>>

NextMesh ==
    \/ \E lib \in [1..MaxMeshShapes -> TriLibOutcomes] : CallGenerateMesh(lib)
    \/ CallGenerateFibers

SpecMesh == InitMesh /\ [][NextMesh]_vars


\* ================================================================== claims
\* a fiber placed by the line / radial dialogs (their fiber_area is no cell area)
IsManual(fiber) == fiber.area = ManualArea

HasManual(fibers) == \E i \in 1..Len(fibers) : IsManual(fibers[i])

\* C1: generate_mesh followed immediately by undo leaves section.mesh referring
\* to the prior mesh and section.fibers equal, fiber for fiber and in order,
\* to section.fibers as it was just before the generate_mesh call.
Thm_C1_UndoRestoresSection ==
    trail = <<"generate", "undo">> =>
        /\ section.mesh = snap_pre.mesh
        /\ section.fibers = snap_pre.fibers

\* a generate_mesh on a section with a manual fiber and a previous mesh, which
\* changed the fibers, has just been undone
Wit_C1_UndoWithManualAndMesh ==
    /\ trail = <<"generate", "undo">>
    /\ snap_pre.mesh # NoMesh
    /\ HasManual(snap_pre.fibers)
    /\ snap_post.fibers # snap_pre.fibers
    /\ snap_post.mesh # snap_pre.mesh

\* C2: after the undo of a regeneration whose prior mesh is not None, the
\* prior mesh's own fibers are the list it held before the execute.
Cex_C2_OldMeshFibersKept ==
    (trail = <<"generate", "undo">> /\ snap_pre.mesh # NoMesh) =>
        meshes[snap_pre.mesh].fibers = snap_pre.mesh_fibers

\* C3: generate_mesh, undo, redo leaves section.mesh, section.fibers and the
\* mesh's fibers equal to the state right after the original generate_mesh.
Thm_C3_RedoRestoresExecuted ==
    trail = <<"generate", "undo", "redo">> => Snap(section, meshes) = snap_post

\* generate, undo, redo on a section that held a manual fiber, with a mesh
\* that produced fibers
Wit_C3_RedoneWithManual ==
    /\ trail = <<"generate", "undo", "redo">>
    /\ HasManual(snap_pre.fibers)
    /\ snap_post.mesh_fibers # <<>>
    /\ snap_post.fibers # snap_pre.fibers

\* C4: redo re-installs the mesh and the merged fiber list of the original
\* execute, whatever happened to the shapes' material_id and active flags
\* between the undo and the redo.
Cex_C4_RedoIgnoresShapeEdits ==
    trail = <<"generate", "undo", "edit", "redo">> =>
        /\ section.mesh = snap_post.mesh
        /\ section.fibers = snap_post.fibers

\* the execute that ran last (a generate_mesh call or the redo of one)
JustExecuted ==
    /\ trail # <<>>
    /\ trail[Len(trail)] \in {"generate", "redo"}
    /\ section.mesh # NoMesh

\* C5: the merged list is the existing section.fibers unchanged and in order,
\* followed by exactly the new mesh fibers whose id does not occur among the
\* existing ones, in generation order.
Thm_C5_MergeExistingWins ==
    JustExecuted =>
        LET existing == snap_pre.fibers
            new      == meshes[section.mesh].fibers
            n        == Len(existing)
            added    == SubSeq(section.fibers, n + 1, Len(section.fibers))
        IN /\ Len(section.fibers) >= n
           /\ SubSeq(section.fibers, 1, n) = existing
           /\ \A i \in 1..Len(added) :
                 /\ added[i] \in SeqToSet(new)
                 /\ added[i].id \notin FiberIds(existing)
           /\ \A j \in 1..Len(new) :
                 new[j].id \notin FiberIds(existing) => new[j] \in SeqToSet(added)
           /\ \A i \in 1..Len(added), k \in 1..Len(added) :
                 i < k => added[i].id < added[k].id

\* an execute where an existing fiber won an id collision against a different
\* new fiber and another new fiber was appended
Wit_C5_CollisionAndAppend ==
    /\ JustExecuted
    /\ \E i \in 1..Len(snap_pre.fibers), j \in 1..Len(meshes[section.mesh].fibers) :
          /\ snap_pre.fibers[i].id = meshes[section.mesh].fibers[j].id
          /\ snap_pre.fibers[i] # meshes[section.mesh].fibers[j]
          /\ section.fibers[i] = snap_pre.fibers[i]
    /\ Len(section.fibers) > Len(snap_pre.fibers)

\* C6: a manual fiber in section.fibers is still there after any step other
\* than a fiber deletion.
Cex_C6_NoManualFiberLost ==
    [][ n_deletes' = n_deletes =>
          \A i \in 1..Len(section.fibers) :
             IsManual(section.fibers[i]) =>
                section.fibers[i] \in SeqToSet(section'.fibers) ]_vars

\* C7: generate_mesh with a None mesh completes without raising, leaves
\* section.mesh None and keeps every fiber of section.fibers.
Cex_C7_NullMeshIsNoError ==
    (trail \in {<<"generate">>, <<"generate_raised">>} /\ snap_post.mesh = NoMesh) =>
        /\ trail = <<"generate">>
        /\ section.mesh = NoMesh
        /\ SeqToSet(snap_pre.fibers) \subseteq SeqToSet(section.fibers)

\* C8: after a regeneration with a mesh that is not None, the mesh's own
\* fibers are the freshly generated ones only, one per element in element
\* order and none of them a manual fiber, while section.fibers starts with
\* the fibers the section held before.
Thm_C8_MeshHoldsOnlyFreshFibers ==
    JustExecuted =>
        LET mesh == meshes[section.mesh]
        IN /\ Len(mesh.fibers) = Len(mesh.elements)
           /\ \A i \in 1..Len(mesh.fibers) :
                 /\ mesh.fibers[i].id = i
                 /\ ~IsManual(mesh.fibers[i])
                 /\ mesh.fibers[i].area =
                       PolyArea([k \in 1..Len(mesh.elements[i]) |->
                                    NodeAt(mesh, mesh.elements[i][k])])
           /\ SubSeq(section.fibers, 1, Len(snap_pre.fibers)) = snap_pre.fibers

\* a regeneration on a section that held manual fibers: the merged list and
\* the mesh's own list differ
Wit_C8_MergedDiffersFromMesh ==
    /\ JustExecuted
    /\ HasManual(snap_pre.fibers)
    /\ meshes[section.mesh].fibers # <<>>
    /\ section.fibers # meshes[section.mesh].fibers

\* node offset and element offset of the k-th merged shape, from the log
NodeOffset(log, k) == SumSeq([j \in 1..(k - 1) |-> log[j].nodes])

ElementOffset(log, k) == SumSeq([j \in 1..(k - 1) |-> log[j].elements])

\* the node indices referenced by the elements of the k-th merged shape
BlockNodeRefs(out, k) ==
    UNION { SeqToSet(out.mesh.elements[e]) :
            e \in (ElementOffset(out.log, k) + 1)..
                  (ElementOffset(out.log, k) + out.log[k].elements) }

\* C9: in every mesh returned by generate_mesh every node index of an element
\* is a valid index into the node list.
Thm_C9_IndexValidity ==
    gen_out.status = "ok" =>
        \A e \in 1..Len(gen_out.mesh.elements) :
            \A k \in 1..Len(gen_out.mesh.elements[e]) :
                /\ 0 <= gen_out.mesh.elements[e][k]
                /\ gen_out.mesh.elements[e][k] < Len(gen_out.mesh.nodes)

\* a mesh merged from a triangulated and a grid-meshed shape, both with elements
Wit_C9_MixedStrategies ==
    /\ gen_out.status = "ok"
    /\ Len(gen_out.log) = 2
    /\ \A k \in 1..2 : gen_out.log[k].elements > 0
    /\ gen_in.shapes[gen_out.log[1].shape].mesh_type = "triangular"
    /\ gen_in.shapes[gen_out.log[2].shape].mesh_type = "quadrilateral"

\* C10: the merged node count is the sum of the per-shape node counts, each
\* shape's elements reference only the block of nodes appended for it, and
\* elements of different shapes share no node index.
Thm_C10_NoNodeSharing ==
    gen_out.status = "ok" =>
        /\ Len(gen_out.mesh.nodes) = SumSeq([k \in 1..Len(gen_out.log) |-> gen_out.log[k].nodes])
        /\ Len(gen_out.mesh.elements) =
              SumSeq([k \in 1..Len(gen_out.log) |-> gen_out.log[k].elements])
        /\ \A k \in 1..Len(gen_out.log) :
              \A n \in BlockNodeRefs(gen_out, k) :
                 /\ NodeOffset(gen_out.log, k) <= n
                 /\ n < NodeOffset(gen_out.log, k) + gen_out.log[k].nodes
        /\ \A k \in 1..Len(gen_out.log), l \in 1..Len(gen_out.log) :
              k # l => BlockNodeRefs(gen_out, k) \cap BlockNodeRefs(gen_out, l) = {}

\* two merged shapes whose elements use nodes at the same coordinate, under
\* two different node indices
Wit_C10_SharedBoundaryPoint ==
    /\ gen_out.status = "ok"
    /\ Len(gen_out.log) = 2
    /\ \E n1 \in BlockNodeRefs(gen_out, 1), n2 \in BlockNodeRefs(gen_out, 2) :
          /\ n1 # n2
          /\ NodeAt(gen_out.mesh, n1) = NodeAt(gen_out.mesh, n2)

\* C11: generate_mesh returns null exactly when the list filtered to the
\* active shapes is empty, in particular for a non-empty list in which every
\* shape is inactive.
Cex_C11_NullIffNoActiveShape ==
    gen_out.status \in {"ok", "none"} =>
        ((gen_out.status = "none") <=>
            (\A i \in 1..Len(gen_in.shapes) : ~gen_in.shapes[i].active))

\* the shapes of a call whose strategy answered with a mesh, in list order:
\* active, and grid-meshed or triangulated without a library error
Meshed(shapes, lib) ==
    SelectSeq([i \in 1..Len(shapes) |-> i],
              LAMBDA i : /\ shapes[i].active
                         /\ \/ shapes[i].mesh_type = "quadrilateral"
                            \/ lib[i] # "error")

\* some active triangulated shape of the call met a library error
SomeTriFailed(shapes, lib) ==
    \E i \in 1..Len(shapes) :
        shapes[i].active /\ shapes[i].mesh_type = "triangular" /\ lib[i] = "error"

\* a grid-meshed active shape with mesh size 0 (the division by zero of C14)
SomeQuadZero(shapes) ==
    \E i \in 1..Len(shapes) :
        /\ shapes[i].active /\ shapes[i].mesh_type = "quadrilateral"
        /\ shapes[i].mesh_size = Some(0)

\* the elements of the k-th merged block, as local node indices
BlockLocalElements(out, k) ==
    [e \in 1..out.log[k].elements |->
        [c \in 1..Len(out.mesh.elements[ElementOffset(out.log, k) + e]) |->
            out.mesh.elements[ElementOffset(out.log, k) + e][c] - NodeOffset(out.log, k)]]

ResolvedMeshSize(shape, global_mesh_size) ==
    IF IsNone(shape.mesh_size) THEN global_mesh_size
    ELSE IF Val(shape.mesh_size) <= 0 THEN DefaultMeshSize
    ELSE Val(shape.mesh_size)

\* the node count of the grid the quadrilateral strategy builds for a mesh size
GridNodeCount(shape, ms) ==
    (Max(2, TruncDiv(Bounds(shape)[4] - Bounds(shape)[2], ms)) + 1)
      * (Max(2, TruncDiv(Bounds(shape)[3] - Bounds(shape)[1], ms)) + 1)

\* C13: the mesh size used for a shape is shape.mesh_size when set and the
\* global_mesh_size of the call otherwise; here read off the grid of every
\* grid-meshed shape of a call.
Cex_C13_GlobalSizeUsedWhenUnset ==
    gen_out.status = "ok" =>
        \A k \in 1..Len(gen_out.log) :
            gen_in.shapes[gen_out.log[k].shape].mesh_type = "quadrilateral" =>
                gen_out.log[k].nodes =
                    GridNodeCount(gen_in.shapes[gen_out.log[k].shape],
                                  ResolvedMeshSize(gen_in.shapes[gen_out.log[k].shape],
                                                   gen_in.global_mesh_size))

\* C14: an invalid mesh size (null, zero, negative) never makes mesh
\* generation raise.
Cex_C14_InvalidSizeNeverRaises ==
    gen_out.status # "raise"

\* the number of corners of a grid cell of the k-th merged shape that its
\* geometry contains or touches, read from the returned node list
CornersIn(out, k, shape, cell) ==
    Cardinality({c \in 1..4 :
        \/ GeomContains(shape, out.mesh.nodes[NodeOffset(out.log, k) + cell[c] + 1])
        \/ GeomTouches(shape, out.mesh.nodes[NodeOffset(out.log, k) + cell[c] + 1])})

\* the cells of the bounding-box grid of a grid-meshed shape
GridCells(shape, ms) ==
    SeqToSet(QuadCells(Max(2, TruncDiv(Bounds(shape)[3] - Bounds(shape)[1], ms)),
                       Max(2, TruncDiv(Bounds(shape)[4] - Bounds(shape)[2], ms))))

\* the merged blocks of a call that come from the quadrilateral strategy
QuadBlocks(in, out) ==
    {k \in 1..Len(out.log) : in.shapes[out.log[k].shape].mesh_type = "quadrilateral"}

\* C15: the quadrilateral strategy keeps a grid cell as an element if and only
\* if at least 3 of its 4 corner nodes are inside or on the boundary of the
\* shape: a cell with exactly 2 such corners is discarded, one with exactly 3
\* is kept.
Thm_C15_QuadInclusionRule ==
    gen_out.status = "ok" =>
        \A k \in QuadBlocks(gen_in, gen_out) :
            \A cell \in GridCells(gen_in.shapes[gen_out.log[k].shape],
                                  CoerceMeshSize(gen_in.shapes[gen_out.log[k].shape].mesh_size)) :
                (cell \in SeqToSet(BlockLocalElements(gen_out, k)))
                  <=> CornersIn(gen_out, k, gen_in.shapes[gen_out.log[k].shape], cell) >= 3

\* a grid-meshed shape with a cell of exactly 2 passing corners and a cell of
\* exactly 3
Wit_C15_TwoAndThreeCorners ==
    /\ gen_out.status = "ok"
    /\ \E k \in QuadBlocks(gen_in, gen_out) :
          \E c2, c3 \in GridCells(gen_in.shapes[gen_out.log[k].shape],
                                  CoerceMeshSize(gen_in.shapes[gen_out.log[k].shape].mesh_size)) :
              /\ CornersIn(gen_out, k, gen_in.shapes[gen_out.log[k].shape], c2) = 2
              /\ CornersIn(gen_out, k, gen_in.shapes[gen_out.log[k].shape], c3) = 3
              /\ c2 \notin SeqToSet(BlockLocalElements(gen_out, k))
              /\ c3 \in SeqToSet(BlockLocalElements(gen_out, k))

\* C16: a single active 2 x 2 rectangle centred at (0, 0), quadrilateral, no
\* size of its own, meshed with global mesh size 1.0, gives a 2 x 2 grid:
\* 9 nodes and 4 elements.
Cex_C16_TwoByTwoGrid ==
    (gen_in = SquareCall /\ gen_out.status # "idle") =>
        /\ gen_out.status = "ok"
        /\ Len(gen_out.mesh.nodes) = 9
        /\ Len(gen_out.mesh.elements) = 4

\* C17: generate_fibers gives exactly one fiber per element, in element order,
\* the fiber of the element at 0-based index i having id i + 1 and being
\* active; an empty mesh gives no fibers; the result replaces mesh.fibers, so
\* a further call on the same mesh and shapes gives an equal list.
Thm_C17_OneFiberPerElement ==
    /\ [](gen_out.fibers_status = "ok" =>
            /\ Len(gen_out.fibers) = Len(gen_out.mesh.elements)
            /\ gen_out.mesh.fibers = gen_out.fibers
            /\ \A i \in 1..Len(gen_out.fibers) :
                  /\ gen_out.fibers[i].id = i
                  /\ gen_out.fibers[i].active
                  /\ <<gen_out.fibers[i].y, gen_out.fibers[i].z>>
                        = PolyCentroid(NodeCoords(gen_out.mesh, gen_out.mesh.elements[i]))
                  /\ gen_out.fibers[i].area
                        = PolyArea(NodeCoords(gen_out.mesh, gen_out.mesh.elements[i])))
    /\ [][(gen_out.fibers_status = "ok" /\ gen_out'.fibers_status = "ok")
            => gen_out'.fibers = gen_out.fibers]_vars

\* generate_fibers was called twice on a mesh with elements
Wit_C17_SecondCall ==
    /\ gen_out.fibers_status = "ok"
    /\ gen_out.fibers_calls = 2
    /\ Len(gen_out.mesh.elements) > 1
    /\ Len(gen_out.fibers) = Len(gen_out.mesh.elements)

\* the positions of the shapes that are active and contain the point
Containing(shapes, p) ==
    {j \in 1..Len(shapes) : shapes[j].active /\ GeomContains(shapes[j], p)}

\* the material a shape gives to a fiber: its material_id if set, else 1
EffectiveMaterial(shape) ==
    IF IsNone(shape.material_id) THEN 1 ELSE Val(shape.material_id)

\* C18: each generated fiber takes the material of the first shape, in list
\* order, that is active and contains the fiber's centroid (its material_id if
\* set, else 1), and material 1 when no active shape contains the centroid.
Thm_C18_FirstContainingShapeWins ==
    gen_out.fibers_status = "ok" =>
        \A i \in 1..Len(gen_out.fibers) :
            LET inside == Containing(gen_in.shapes, <<gen_out.fibers[i].y, gen_out.fibers[i].z>>)
            IN gen_out.fibers[i].material_id =
                  IF inside = {} THEN 1
                  ELSE EffectiveMaterial(
                         gen_in.shapes[CHOOSE j \in inside : \A l \in inside : j <= l])

\* a fiber in the overlap of two active shapes with different materials that
\* has the material of the first-listed one
Wit_C18_OverlapFirstListed ==
    /\ gen_out.fibers_status = "ok"
    /\ Len(gen_in.shapes) = 2
    /\ EffectiveMaterial(gen_in.shapes[1]) # EffectiveMaterial(gen_in.shapes[2])
    /\ \E i \in 1..Len(gen_out.fibers) :
          /\ Containing(gen_in.shapes, <<gen_out.fibers[i].y, gen_out.fibers[i].z>>) = {1, 2}
          /\ gen_out.fibers[i].material_id = EffectiveMaterial(gen_in.shapes[1])

\* C19: every new command executed through DataManager (add_shape,
\* delete_shape of a shape it finds, generate_mesh) pushes that command on the
\* undo stack and empties the redo stack.
Cex_C19_NewCommandClearsRedo ==
    [][ n_commands' = n_commands + 1 =>
          /\ Len(undo_stack') = Len(undo_stack) + 1
          /\ Front(undo_stack') = undo_stack
          /\ redo_stack' = <<>> ]_vars

\* C20: the section's (mesh, fibers) pair changes only through the add-shape,
\* delete-shape and mesh-regeneration commands and their undo / redo, so every
\* change of the pair goes with a change of the history stacks.
Cex_C20_PairChangesOnlyByCommands ==
    [][ (section'.mesh # section.mesh \/ section'.fibers # section.fibers) =>
          (undo_stack' # undo_stack \/ redo_stack' # redo_stack) ]_vars

\* the ids of the shapes of the section, in list order
SectionShapeIds == [i \in 1..Len(section.shapes) |-> shape_objs[section.shapes[i]].id]

\* C21: after any sequence of shape creations, deletions, undo and redo, no
\* two shapes in section.shapes have the same id.
Cex_C21_ShapeIdsUnique ==
    \A i, j \in 1..Len(section.shapes) :
        i # j => SectionShapeIds[i] # SectionShapeIds[j]

\* C22: a PolygonShape built from a vertex list with fewer than 3 distinct
\* vertices does not raise and has the unit-square geometry
\* (0,0),(1,0),(1,1),(0,1).
Cex_C22_DegeneratePolygonIsUnitSquare ==
    (gen_in.call = "PolygonShape" /\ gen_out.status # "idle"
       /\ Cardinality(SeqToSet(gen_in.vertices)) < 3) =>
        /\ gen_out.status = "ok"
        /\ gen_out.ring = << <<0, 0>>, <<60, 0>>, <<60, 60>>, <<0, 60>> >>

\* C24: create_shape_from_dict(shape.to_dict()) is a shape of the same variant
\* with the same id, defining parameters, material_id, mesh_size, mesh_type
\* and active flag.
Cex_C24_ShapeRoundTrip ==
    (gen_in.call = "round_trip" /\ gen_out.status = "ok") =>
        gen_out.shape = gen_in.shape

\* C23: whenever manual fibers exist, the exported fiber commands are built
\* from section.fibers: exactly its active fibers, one command each, in list
\* order.
Cex_C23_ExportUsesSectionFibers ==
    HasManual(section.fibers) =>
        GetOpenseesSectionCommand(section, meshes) = FiberCommands(section.fibers)

\* C25: undoing an add-shape command removes exactly the shape the command
\* added and leaves every other shape of the section in place; here for the
\* undo that directly follows the command.
Cex_C25_UndoAddRemovesAddedShape ==
    trail = <<"add", "undo">> => section.shapes = snap_pre.shapes

\* C26: delete_shape followed immediately by undo restores the section's shape
\* list to the same shapes in the same order as before the delete.
Cex_C26_UndoDeleteRestoresOrder ==
    trail = <<"delete", "undo">> => section.shapes = snap_pre.shapes

\* C27: the fiber ids in section.fibers are pairwise distinct after any
\* sequence of manual fiber additions, fiber deletions, mesh regenerations,
\* undo and redo, starting from an empty section.
Cex_C27_FiberIdsDistinct ==
    \A i, j \in 1..Len(section.fibers) :
        i # j => section.fibers[i].id # section.fibers[j].id

\* C28: on a section with no manually placed fibers, after any number of
\* successive mesh regenerations section.fibers equals the fibers of the
\* current mesh: no fiber of a superseded mesh remains and every element of
\* the current mesh has its own fiber.
Cex_C28_SectionFibersAreCurrentMesh ==
    (trail = <<"generate">> /\ n_manual = 0 /\ section.mesh # NoMesh) =>
        /\ section.fibers = meshes[section.mesh].fibers
        /\ Len(section.fibers) = Len(meshes[section.mesh].elements)

\* two stack entries are the same operation object: its class and the shape
\* or meshes it was constructed with
SameOperation(op1, op2) ==
    /\ op1.kind = op2.kind
    /\ op1.shape = op2.shape
    /\ op1.old_mesh = op2.old_mesh
    /\ op1.new_mesh = op2.new_mesh

\* the top of the stack `from` went to the top of the stack `to`
TopMoved(from, to, from_after, to_after) ==
    /\ from_after = Front(from)
    /\ Len(to_after) = Len(to) + 1
    /\ Front(to_after) = to
    /\ SameOperation(Last(to_after), Last(from))

\* C29: undo on an empty undo stack and redo on an empty redo stack change
\* nothing; otherwise each moves exactly the top operation of its stack to the
\* top of the other stack, so the number of recorded operations is unchanged.
Thm_C29_UndoRedoMoveTop ==
    [][ /\ Undo => IF undo_stack = <<>>
                   THEN UNCHANGED <<section, meshes, shape_objs, undo_stack, redo_stack>>
                   ELSE /\ TopMoved(undo_stack, redo_stack, undo_stack', redo_stack')
                        /\ Len(undo_stack') + Len(redo_stack')
                             = Len(undo_stack) + Len(redo_stack)
        /\ Redo => IF redo_stack = <<>>
                   THEN UNCHANGED <<section, meshes, shape_objs, undo_stack, redo_stack>>
                   ELSE /\ TopMoved(redo_stack, undo_stack, redo_stack', undo_stack')
                        /\ Len(undo_stack') + Len(redo_stack')
                             = Len(undo_stack) + Len(redo_stack) ]_vars

\* a regeneration was undone and redone while an older command stayed on the
\* undo stack
Wit_C29_UndoneAndRedone ==
    /\ trail = <<"generate", "undo", "redo">>
    /\ Len(undo_stack) >= 2
    /\ redo_stack = <<>>


\* C30: regeneration is all-or-nothing with respect to the history: when
\* DataManager.generate_mesh changed section.mesh or section.fibers its
\* operation is the top of the undo stack at the end of the call, and when
\* execute failed part-way section.mesh and section.fibers are as they were
\* before the call.
Cex_C30_RegenerationAllOrNothing ==
    /\ (trail = <<"generate">> /\ Snap(section, meshes) # snap_pre) =>
          (undo_stack # <<>> /\ Last(undo_stack).new_mesh = section.mesh)
    /\ trail = <<"generate_raised">> =>
          (section.mesh = snap_pre.mesh /\ section.fibers = snap_pre.fibers)

=============================================================================
